---- MODULE Spec2Model ----
(***************************************************************************)
(* Wallet ledger and transfer engine of tensortrade                        *)
(* (tensortrade/oms/wallets/wallet.py), and the load protocol of PushFeed  *)
(* (tensortrade/feed/core/feed.py).                                        *)
(*                                                                         *)
(* Amounts are integers counted in ticks.  One tick is a tenth of the      *)
(* instrument's quantum 10^-precision, so a Quantity may carry one decimal *)
(* digit more than the instrument keeps and quantize() has rounding to do. *)
(* Each instrument is counted in its own ticks.                            *)
(***************************************************************************)
EXTENDS Integers, Sequences, FiniteSets, TLC

VARIABLES balance, locked, initial_size, ledger, last, calls,
          value, start, flast

walletvars == <<balance, locked, initial_size, ledger, last, calls>>
feedvars == <<value, start, flast>>
vars == <<balance, locked, initial_size, ledger, last, calls, value, start, flast>>

(***************************************************************************)
(* Instruments, exchange options and the Quantity value type.              *)
(***************************************************************************)
Wallets == {"USD", "BTC"}

\* the wallet on the other side of a two-wallet transfer
Other(w) == IF w = "USD" THEN "BTC" ELSE "USD"

\* Instrument.precision of the two instruments (USD keeps 2 digits, BTC 8)
PrecisionUSD == 2
PrecisionBTC == 8
Precision(w) == IF w = "USD" THEN PrecisionUSD ELSE PrecisionBTC

\* decimal digits a Quantity may carry beyond the instrument's precision
SubDigits == 1

RECURSIVE Pow10(_)
Pow10(n) == IF n = 0 THEN 1 ELSE 10 * Pow10(n - 1)

\* 10^-precision, in ticks
Quantum == Pow10(SubDigits)

\* exponent offset of the dust threshold: Decimal(10)**(-precision+2)
ThresholdShift == 2

\* Decimal(10)**(-self.instrument.precision+2), in ticks
Threshold == Pow10(ThresholdShift) * Quantum

\* order path ids; NoPath is path_id = None (a free quantity)
PathIds == {"p1", "p2"}
NoPath == "none"
Keys == PathIds \cup {NoPath}

\* Quantity(instrument, size, path_id); the instrument is the wallet's
Qty(size, path_id) == [size |-> size, path_id |-> path_id]

\* Quantity.is_locked
is_locked(q) == q.path_id # NoPath

\* Quantity.free()
free(q) == Qty(q.size, NoPath)

\* Quantity.lock_for(path_id)
lock_for(q, path_id) == Qty(q.size, path_id)

\* x / d rounded to the nearest integer, ties to even (Decimal's default
\* ROUND_HALF_EVEN), for x >= 0 and d > 0
RoundHalfEven(x, d) ==
    LET f == x \div d
        r == x % d
    IN  IF 2 * r < d THEN f
        ELSE IF 2 * r > d THEN f + 1
        ELSE IF f % 2 = 0 THEN f ELSE f + 1

\* Decimal.quantize(10^-precision) on a size in ticks
QuantizeSize(size) == RoundHalfEven(size, Quantum) * Quantum

\* Quantity.quantize()
quantize(q) == Qty(QuantizeSize(q.size), q.path_id)

(***************************************************************************)
(* Wallet state as the operations see it: the balance and the locked map  *)
(* of every wallet, and the ledger all wallets share (Wallet.ledger is a   *)
(* class attribute).  Every operation maps such a state to                 *)
(* [st, err, ret]: the state it leaves, "ok" or the exception it raises,  *)
(* and the Quantity it returns.                                            *)
(***************************************************************************)
Ok == "ok"

\* the outcome of a call that raises: nothing was assigned before the raise
Raise(st, exc, q) == [st |-> st, err |-> exc, ret |-> q]

\* Ledger.commit(wallet, quantity, source, target, memo)
commit(led, w, q, source, target, memo) ==
    Append(led, [wallet |-> w, quantity |-> q, source |-> source,
                 target |-> target, memo |-> memo])

\* self._locked[path_id] = v
\* an assignment that writes the value to every entry of the map
SetLockedAll(lck, p, v) == [k \in (DOMAIN lck) \cup {p} |-> v]

SetLocked(lck, p, v) == [k \in (DOMAIN lck) \cup {p} |-> IF k = p THEN v ELSE lck[k]]

\* the empty dict
EmptyDict == [k \in {} |-> 0]

\* Wallet.locked_balance (the sum of the locked entries)
RECURSIVE SumOver(_, _)
SumOver(lck, ks) ==
    IF ks = {} THEN 0
    ELSE LET k == CHOOSE x \in ks : TRUE
         IN  lck[k] + SumOver(lck, ks \ {k})

locked_balance(lck) == SumOver(lck, DOMAIN lck)

\* Wallet.total_balance
total_balance(st, w) == st.balance[w] + locked_balance(st.locked[w])

\* a dust rule that lets through ten times the threshold
ExceedsDustTenfold(size, avail) ==
    size > avail /\ (size - avail) > Pow10(ThresholdShift + 1) * Quantum

\* quantity > available and (quantity - available) > 10^(-precision+2):
\* the request exceeds what is available by more than the dust threshold
ExceedsDust(size, avail) == size > avail /\ (size - avail) > Threshold

\* an amount taken that is never cut down
NoClamp(size, avail) == size

\* the amount taken: a request above what is available is cut down to it
Clamp(size, avail) == IF size > avail THEN avail ELSE size

\* a lock that takes a quantity whatever its path_id
NeverLocked(quantity) == FALSE

\* if quantity.is_locked: raise DoubleLockedQuantity(quantity)
AlreadyLocked(quantity) == is_locked(quantity)

\* Wallet.lock(quantity, path_id, reason)
lock(st, w, quantity, path_id) ==
    LET bal == st.balance[w]
        lck == st.locked[w]
    IN  IF AlreadyLocked(quantity) THEN Raise(st, "DoubleLockedQuantity", quantity)
        ELSE IF ExceedsDust(quantity.size, bal)
        THEN Raise(st, "InsufficientFunds", quantity)
        ELSE
          LET q1 == Qty(Clamp(quantity.size, bal), NoPath)
              bal1 == bal - q1.size
              q2 == lock_for(q1, path_id)
              e1 == IF q2.path_id \notin DOMAIN lck THEN q2.size
                    ELSE lck[q2.path_id] + q2.size
              lck2 == SetLocked(lck, q2.path_id, QuantizeSize(e1))
              bal2 == QuantizeSize(bal1)
          IN  [st |-> [balance |-> [st.balance EXCEPT ![w] = bal2],
                       locked |-> [st.locked EXCEPT ![w] = lck2],
                       ledger |-> commit(st.ledger, w, q2, "free", "locked", "LOCK")],
               err |-> Ok, ret |-> q2]

\* an over-request test that lets dust through, as lock and withdraw do
OverdrawnBeyondDust(size, entry) == size - entry > Threshold

\* if quantity > self._locked[quantity.path_id]: raise InsufficientFunds
Overdrawn(size, entry) == size > entry

\* an unlock that commits no record
unlockSilent(st, w, quantity) ==
    LET bal == st.balance[w]
        lck == st.locked[w]
        p == quantity.path_id
    IN  IF ~is_locked(quantity) THEN Raise(st, "DoubleUnlockedQuantity", quantity)
        ELSE IF p \notin DOMAIN lck THEN Raise(st, "QuantityNotLocked", quantity)
        ELSE IF Overdrawn(quantity.size, lck[p])
        THEN Raise(st, "InsufficientFunds", quantity)
        ELSE
          LET e1 == lck[p] - quantity.size
              bal1 == bal + free(quantity).size
              lck2 == SetLocked(lck, p, QuantizeSize(e1))
              bal2 == QuantizeSize(bal1)
          IN  [st |-> [balance |-> [st.balance EXCEPT ![w] = bal2],
                       locked |-> [st.locked EXCEPT ![w] = lck2],
                       ledger |-> st.ledger],
               err |-> Ok, ret |-> quantity]

\* Wallet.unlock(quantity, reason)
unlock(st, w, quantity) ==
    LET bal == st.balance[w]
        lck == st.locked[w]
        p == quantity.path_id
    IN  IF ~is_locked(quantity) THEN Raise(st, "DoubleUnlockedQuantity", quantity)
        ELSE IF p \notin DOMAIN lck THEN Raise(st, "QuantityNotLocked", quantity)
        ELSE IF Overdrawn(quantity.size, lck[p])
        THEN Raise(st, "InsufficientFunds", quantity)
        ELSE
          LET e1 == lck[p] - quantity.size
              bal1 == bal + free(quantity).size
              lck2 == SetLocked(lck, p, QuantizeSize(e1))
              bal2 == QuantizeSize(bal1)
          IN  [st |-> [balance |-> [st.balance EXCEPT ![w] = bal2],
                       locked |-> [st.locked EXCEPT ![w] = lck2],
                       ledger |-> commit(st.ledger, w, quantity, "locked", "free", "UNLOCK")],
               err |-> Ok, ret |-> quantity]

\* a deposit that adds every quantity to the balance
depositFree(st, w, quantity) ==
    LET bal == st.balance[w]
        bal2 == QuantizeSize(bal + quantity.size)
    IN  [st |-> [balance |-> [st.balance EXCEPT ![w] = bal2],
                 locked |-> st.locked,
                 ledger |-> commit(st.ledger, w, quantity, "exchange", "locked", "DEPOSIT")],
         err |-> Ok, ret |-> quantity]

\* Wallet.deposit(quantity, reason)
deposit(st, w, quantity) ==
    LET bal == st.balance[w]
        lck == st.locked[w]
        p == quantity.path_id
        lck1 == IF is_locked(quantity)
                THEN SetLocked(lck, p, IF p \notin DOMAIN lck THEN quantity.size
                                       ELSE lck[p] + quantity.size)
                ELSE lck
        bal1 == IF is_locked(quantity) THEN bal ELSE bal + quantity.size
        bal2 == QuantizeSize(bal1)
    IN  [st |-> [balance |-> [st.balance EXCEPT ![w] = bal2],
                 locked |-> [st.locked EXCEPT ![w] = lck1],
                 ledger |-> commit(st.ledger, w, quantity, "exchange", "locked", "DEPOSIT")],
         err |-> Ok, ret |-> quantity]

\* a withdraw that rejects a locked quantity whose path id has no entry
withdrawChecked(st, w, quantity) ==
    LET bal == st.balance[w]
        lck == st.locked[w]
        p == quantity.path_id
        inLocked == is_locked(quantity) /\ p \in DOMAIN lck
        avail == IF inLocked THEN lck[p] ELSE bal
        touches == inLocked \/ ~is_locked(quantity)
    IN  IF ~touches THEN Raise(st, "QuantityNotLocked", quantity)
        ELSE IF ExceedsDust(quantity.size, avail)
        THEN Raise(st, "InsufficientFunds", quantity)
        ELSE
          LET q1 == Qty(Clamp(quantity.size, avail), p)
              lck1 == IF inLocked THEN SetLocked(lck, p, lck[p] - q1.size) ELSE lck
              bal1 == IF ~is_locked(quantity) THEN bal - q1.size ELSE bal
              bal2 == QuantizeSize(bal1)
          IN  [st |-> [balance |-> [st.balance EXCEPT ![w] = bal2],
                       locked |-> [st.locked EXCEPT ![w] = lck1],
                       ledger |-> commit(st.ledger, w, q1, "locked", "exchange", "WITHDRAWAL")],
               err |-> Ok, ret |-> q1]

\* Wallet.withdraw(quantity, reason)
withdraw(st, w, quantity) ==
    LET bal == st.balance[w]
        lck == st.locked[w]
        p == quantity.path_id
        inLocked == is_locked(quantity) /\ p \in DOMAIN lck
        avail == IF inLocked THEN lck[p] ELSE bal
        touches == inLocked \/ ~is_locked(quantity)
    IN  IF touches /\ ExceedsDust(quantity.size, avail)
        THEN Raise(st, "InsufficientFunds", quantity)
        ELSE
          LET q1 == IF touches THEN Qty(Clamp(quantity.size, avail), p) ELSE quantity
              lck1 == IF inLocked THEN SetLocked(lck, p, lck[p] - q1.size) ELSE lck
              bal1 == IF ~is_locked(quantity) THEN bal - q1.size ELSE bal
              bal2 == QuantizeSize(bal1)
          IN  [st |-> [balance |-> [st.balance EXCEPT ![w] = bal2],
                       locked |-> [st.locked EXCEPT ![w] = lck1],
                       ledger |-> commit(st.ledger, w, q1, "locked", "exchange", "WITHDRAWAL")],
               err |-> Ok, ret |-> q1]

\* a reset that restores the balance and keeps the locked map
resetKeepLocked(st, w, init) ==
    [st |-> [balance |-> [st.balance EXCEPT ![w] = quantize(Qty(init, NoPath)).size],
             locked |-> st.locked,
             ledger |-> st.ledger],
     err |-> Ok, ret |-> Qty(0, NoPath)]

\* Wallet.reset(): the balance and the locked map it assigns
reset(st, w, init) ==
    [st |-> [balance |-> [st.balance EXCEPT ![w] = quantize(Qty(init, NoPath)).size],
             locked |-> [st.locked EXCEPT ![w] = EmptyDict],
             ledger |-> st.ledger],
     err |-> Ok, ret |-> Qty(0, NoPath)]

(***************************************************************************)
(* The transfer protocol.  The exchange pair is USD/BTC: USD is its base,  *)
(* BTC its quote, and its price is counted in USD ticks per BTC tick.      *)
(***************************************************************************)
\* source.exchange.options.commission, the fee rate FeeNum / FeeDen
FeeNum == 1
FeeDen == 10

\* exchange_pair.price of the calls explored
Prices == {2}

Sides == {"BUY", "SELL"}

\* Quantity.convert(exchange_pair) of a quantity of wallet w's instrument:
\* base -> quote divides by the price, quote -> base multiplies; the lock tag
\* is kept.  The quotient is rounded at the tick as Decimal rounds at its
\* context precision.
convert(q, w, price) ==
    IF w = "USD" THEN Qty(RoundHalfEven(q.size, price), q.path_id)
    ELSE Qty(q.size * price, q.path_id)

\* quantity * fee_rate (Quantity.__mul__ keeps the lock tag)
MulFee(q) == Qty(RoundHalfEven(q.size * FeeNum, FeeDen), q.path_id)

\* digits of the tolerance 0.00001 of check_diff
EpsDigits == 5

\* check_diff(a, b) of transfer, on a = aNum/den and b = bNum/den counted in
\* ticks of wallet w's instrument: |a - b| < 0.00001, where 0.00001 is
\* 10^(tickDigits - EpsDigits) ticks
check_diff(aNum, bNum, den, w) ==
    LET d == IF aNum > bNum THEN aNum - bNum ELSE bNum - aNum
        tickDigits == Precision(w) + SubDigits
    IN  IF tickDigits >= EpsDigits
        THEN d < den * Pow10(tickDigits - EpsDigits)
        ELSE d * Pow10(EpsDigits - tickDigits) < den

NoTransfer == [quantity |-> Qty(0, NoPath), commission |-> Qty(0, NoPath), price |-> 0]

\* a transfer that raises exc, leaving the wallets as st
TransferRaise(st, exc) == [st |-> st, err |-> exc, ret |-> NoTransfer]

\* the correctness check at the end of transfer: "ok", or the exception
\* that the check raises (a negative Quantity cannot be built)
CorrectnessCheck(sb1, tb1, sb2, tb2, commission, source, price, side) ==
    IF sb1 < sb2 \/ tb2 < tb1 THEN "InvalidNegativeQuantity"
    ELSE
      LET spent == sb1 - sb2
          delta == tb2 - tb1
          \* the target's instrument is the base: converting back divides
          div == source = "BTC"
          aNum == IF div THEN spent * price ELSE spent
          bNum == IF side = "BUY"
                  THEN IF div THEN delta + commission.size * price
                       ELSE delta * price + commission.size
                  ELSE IF div THEN delta + commission.size
                       ELSE (delta + commission.size) * price
          den == IF div THEN price ELSE 1
      IN  IF check_diff(aNum, bNum, den, source) THEN Ok ELSE "AssertionError"

\* Wallet.transfer(source, target, quantity, exchange_pair, side)
\* a commission always charged to the source wallet
PayerSource(source, target, side) == source

\* the wallet the commission is locked in and withdrawn from:
\* source.lock / source.withdraw for BUY, target.lock / target.withdraw else
Payer(source, target, side) == IF side = "BUY" THEN source ELSE target

transfer(st, source, target, quantity, price, side) ==
    LET sb1 == total_balance(st, source)
        tb1 == total_balance(st, target)
        r1 == withdraw(st, source, quantize(quantity))
    IN  IF r1.err # Ok THEN TransferRaise(r1.st, r1.err)
        ELSE
          LET q == r1.ret
              r2 == deposit(r1.st, target, convert(q, source, price))
              converted == r2.ret
              payer == Payer(source, target, side)
              c0 == free(MulFee(IF side = "BUY" THEN q ELSE converted))
              r3 == lock(r2.st, payer, c0, q.path_id)
          IN  IF r3.err # Ok THEN TransferRaise(r3.st, r3.err)
              ELSE
                LET r4 == withdraw(r3.st, payer, r3.ret)
                IN  IF r4.err # Ok THEN TransferRaise(r4.st, r4.err)
                    ELSE
                      LET commission == r4.ret
                          chk == CorrectnessCheck(sb1, tb1,
                                     total_balance(r4.st, source),
                                     total_balance(r4.st, target),
                                     commission, source, price, side)
                      IN  IF chk # Ok THEN TransferRaise(r4.st, chk)
                          ELSE [st |-> r4.st, err |-> Ok,
                                ret |-> [quantity |-> q, commission |-> commission,
                                         price |-> price]]

(***************************************************************************)
(* PushFeed.  The feed's source streams are Placeholders; value maps each  *)
(* to the value it holds (None when it holds none) and start lists the     *)
(* ones the feed starts from.  Every method maps the values to             *)
(* [value, err, ret]: the values it leaves, "ok" or the exception it       *)
(* raises, and the data point it returns.                                  *)
(***************************************************************************)
Placeholders == {"a", "b"}
\* None, told apart from every value pushed
None == 0

\* the values pushed run from 1 to MaxDatum
MaxDatum == 2
Data == 1..MaxDatum

\* self.start = [s for s in src.difference(tgt) if isinstance(s, Placeholder)]:
\* a list without repetitions of the sources that are Placeholders, none when
\* no source is one
StartLists ==
    {<< >>} \cup {<<s>> : s \in Placeholders}
            \cup {<<s, t>> : <<s, t>> \in {x \in Placeholders \X Placeholders : x[1] # x[2]}}

Streams(strt) == {strt[i] : i \in 1..Len(strt)}

\* the dicts push is called with: a value or None for some of the names
DataDicts == UNION {[ks -> Data \cup {None}] : ks \in SUBSET Placeholders}

NoOutput == [s \in {} |-> None]
Unloaded == [s \in Placeholders |-> None]

\* PushFeed.is_loaded
is_loaded(strt, val) == \A s \in Streams(strt) : val[s] # None

\* DataFeed.forward: the values of the feed's inputs
forward(val) == val

\* PushFeed.next(); runs tells whether self.run() returns or raises
next(strt, val, runs) ==
    IF ~is_loaded(strt, val) THEN [value |-> val, err |-> "Exception", ret |-> NoOutput]
    ELSE IF ~runs THEN [value |-> val, err |-> "RunError", ret |-> NoOutput]
    ELSE [value |-> val, err |-> Ok, ret |-> forward(val)]

\* for s in self.start: s.push(data[s.name])
RECURSIVE PushAll(_, _, _)
PushAll(strt, val, data) ==
    IF strt = << >> THEN [value |-> val, err |-> Ok]
    ELSE IF Head(strt) \notin DOMAIN data THEN [value |-> val, err |-> "KeyError"]
    ELSE PushAll(Tail(strt), [val EXCEPT ![Head(strt)] = data[Head(strt)]], data)

\* a push that leaves the values it pushed in place
ClearNone(strt, val) == val

\* for s in self.start: s.value = None
ClearAll(strt, val) == [s \in DOMAIN val |-> IF s \in Streams(strt) THEN None ELSE val[s]]

\* PushFeed.push(data)
push(strt, val, data, runs) ==
    LET l == PushAll(strt, val, data)
    IN  IF l.err # Ok THEN [value |-> l.value, err |-> l.err, ret |-> NoOutput]
        ELSE LET n == next(strt, l.value, runs)
             IN  IF n.err # Ok THEN n
                 ELSE [value |-> ClearAll(strt, n.value), err |-> Ok, ret |-> n.ret]

(***************************************************************************)
(* The state machine: two wallets of one exchange, one call per step.      *)
(* last records the call just made: its arguments, its outcome, and the    *)
(* wallets and the ledger as they were when it was made; calls counts the  *)
(* calls made so far.                                                      *)
(***************************************************************************)
\* the number of calls made on the wallets in one run
MaxCalls == 2

\* balance.size of the Quantity a wallet is constructed with: the USD wallet
\* is funded (with an amount that quantize() has to round), the BTC wallet
\* is funded or empty
InitSizes(w) == IF w = "USD" THEN {20004} ELSE {0, 20004}

Current == [balance |-> balance, locked |-> locked, ledger |-> ledger]

\* locked[w][p], or 0 when p has no entry
Entry(w, p) == IF p \in DOMAIN locked[w] THEN locked[w][p] ELSE 0

\* The quantities passed to the calls: whole amounts (10 and 15 quanta), one
\* that carries a digit more than the instrument keeps (1.4 quanta), and
\* amounts that exceed what is available by an excess around the dust
\* threshold.
ArgSize == [small |-> 14, whole |-> 100, odd |-> 150]
SmallSize == ArgSize.small
RoundSize == ArgSize.whole
OddSize == ArgSize.odd

\* free quantities measured against the free balance
FreeArgs(w) ==
    {Qty(s, NoPath) : s \in {RoundSize, balance[w] + 5, balance[w] + Threshold,
                             balance[w] + Threshold + 1}}

\* quantities tagged p measured against locked[w][p]
TaggedArgs(w, p) ==
    {Qty(s, p) : s \in {RoundSize, Entry(w, p) + 5, Entry(w, p) + Threshold + 1}}

\* lock takes the quantity q and the path id p to lock it for
LockArgs(w) ==
    {[q |-> q, p |-> "p1"] :
        q \in FreeArgs(w) \cup {Qty(SmallSize, NoPath), Qty(RoundSize, "p1")}}
      \cup {[q |-> Qty(RoundSize, NoPath), p |-> "p2"],
            [q |-> Qty(balance[w] + Threshold + 1, "p1"), p |-> "p2"]}

UnlockArgs(w) ==
    {Qty(s, "p1") : s \in {SmallSize, RoundSize, Entry(w, "p1"), Entry(w, "p1") + 1}}
      \cup {Qty(SmallSize, "p2"), Qty(RoundSize, NoPath)}

DepositArgs == {Qty(SmallSize, NoPath), Qty(RoundSize, NoPath), Qty(SmallSize, "p1")}

WithdrawArgs(w) == FreeArgs(w) \cup TaggedArgs(w, "p1") \cup {Qty(SmallSize, "p2")}

TransferArgs(w) ==
    {Qty(s, NoPath) : s \in {RoundSize, OddSize, balance[w]}}
      \cup {Qty(s, "p1") : s \in {RoundSize, OddSize, Entry(w, "p1") + 5}}

NoQty == Qty(0, NoPath)

\* A call that raised before it assigned anything leaves the wallets and the
\* ledger exactly as they were: whatever can follow it can follow the state
\* it was made in, and is explored from there.  Calls are explored from the
\* states a call has changed or returned in, MaxCalls calls deep.
Explored ==
    /\ calls < MaxCalls
    /\ last.err = Ok \/ Current # last.pre

Call(op, w, q, p, side, price, r, commission) ==
    [op |-> op, wallet |-> w, quantity |-> q, path_id |-> p, side |-> side,
     price |-> price, err |-> r.err, ret |-> r.ret, commission |-> commission,
     pre |-> Current]

\* the assignments of a call with outcome r
Becomes(r) ==
    /\ balance' = r.st.balance
    /\ locked' = r.st.locked
    /\ ledger' = r.st.ledger
    /\ calls' = calls + 1
    /\ UNCHANGED initial_size
    /\ UNCHANGED feedvars

InitWallets ==
    /\ initial_size \in {f \in [Wallets -> {0, 20004}] : \A w \in Wallets : f[w] \in InitSizes(w)}
    /\ balance = [w \in Wallets |-> quantize(Qty(initial_size[w], NoPath)).size]
    /\ locked = [w \in Wallets |-> EmptyDict]
    /\ ledger = << >>
    /\ calls = 0
    /\ last = [op |-> "init", wallet |-> "USD", quantity |-> NoQty, path_id |-> NoPath,
               side |-> "BUY", price |-> 0, err |-> Ok, ret |-> NoQty,
               commission |-> NoQty, pre |-> Current]

\* the record of a call made on the feed: its outcome, the values before it,
\* and the call made before it
FeedCall(op, data, r) ==
    [op |-> op, data |-> data, err |-> r.err, ret |-> r.ret, pre |-> value,
     prev |-> [op |-> flast.op, err |-> flast.err]]

FeedStart ==
    [op |-> "init", data |-> NoOutput, err |-> Ok, ret |-> NoOutput, pre |-> Unloaded,
     prev |-> [op |-> "init", err |-> Ok]]

\* no feed: the wallets are run on their own
FeedIdle ==
    /\ value = Unloaded
    /\ start = << >>
    /\ flast = FeedStart

Init == InitWallets /\ FeedIdle

Lock(w, size, tag, p) ==
    /\ Explored
    /\ LET q == Qty(size, tag)
           r == lock(Current, w, q, p)
       IN  /\ Becomes(r)
           /\ last' = Call("lock", w, q, p, "BUY", 0, r, NoQty)

Unlock(w, size, tag) ==
    /\ Explored
    /\ LET q == Qty(size, tag)
           r == unlock(Current, w, q)
       IN  /\ Becomes(r)
           /\ last' = Call("unlock", w, q, NoPath, "BUY", 0, r, NoQty)

Deposit(w, size, tag) ==
    /\ Explored
    /\ LET q == Qty(size, tag)
           r == deposit(Current, w, q)
       IN  /\ Becomes(r)
           /\ last' = Call("deposit", w, q, NoPath, "BUY", 0, r, NoQty)

Withdraw(w, size, tag) ==
    /\ Explored
    /\ LET q == Qty(size, tag)
           r == withdraw(Current, w, q)
       IN  /\ Becomes(r)
           /\ last' = Call("withdraw", w, q, NoPath, "BUY", 0, r, NoQty)

\* the quotient and the product of the call are exact at the tick, as they
\* are at Decimal's 28 digits
ExactArithmetic(w, size, tag, price, side) ==
    LET r1 == withdraw(Current, w, quantize(Qty(size, tag)))
        q == r1.ret
        base == IF side = "BUY" THEN q ELSE convert(q, w, price)
    IN  r1.err = Ok =>
          /\ w = "USD" => q.size % price = 0
          /\ (base.size * FeeNum) % FeeDen = 0

Transfer(w, size, tag, price, side) ==
    /\ Explored
    /\ ExactArithmetic(w, size, tag, price, side)
    /\ LET q == Qty(size, tag)
           r == transfer(Current, w, Other(w), q, price, side)
       IN  /\ Becomes(r)
           /\ last' = Call("transfer", w, q, NoPath, side, price,
                           [err |-> r.err, ret |-> r.ret.quantity], r.ret.commission)

Reset(w) ==
    /\ Explored
    /\ LET r == reset(Current, w, initial_size[w])
       IN  /\ Becomes(r)
           /\ last' = Call("reset", w, NoQty, NoPath, "BUY", 0, r, NoQty)

CallLock ==
    \E w \in Wallets : \E a \in LockArgs(w) : Lock(w, a.q.size, a.q.path_id, a.p)

CallUnlock ==
    \E w \in Wallets : \E q \in UnlockArgs(w) : Unlock(w, q.size, q.path_id)

CallDeposit ==
    \E w \in Wallets : \E q \in DepositArgs : Deposit(w, q.size, q.path_id)

CallWithdraw ==
    \E w \in Wallets : \E q \in WithdrawArgs(w) : Withdraw(w, q.size, q.path_id)

CallTransfer ==
    \E w \in Wallets, price \in Prices, side \in Sides :
       \E q \in TransferArgs(w) : Transfer(w, q.size, q.path_id, price, side)

CallReset ==
    \E w \in Wallets : Reset(w)

Next ==
    \/ CallLock
    \/ CallUnlock
    \/ CallDeposit
    \/ CallWithdraw
    \/ CallTransfer
    \/ CallReset

Spec == Init /\ [][Next]_vars

\* freshly constructed wallets on which only lock, unlock, deposit and
\* withdraw are called
NextWallet ==
    \/ CallLock
    \/ CallUnlock
    \/ CallDeposit
    \/ CallWithdraw

SpecWallet == Init /\ [][NextWallet]_vars

(***************************************************************************)
(* The feed's state machine: a PushFeed constructed over Placeholders that *)
(* hold nothing, then any calls of push and next on it, and of push on its *)
(* Placeholders.                                                           *)
(***************************************************************************)
InitFeed ==
    /\ InitWallets
    /\ initial_size["BTC"] = 0
    /\ value = Unloaded
    /\ start \in StartLists
    /\ flast = FeedStart

PushFeedPush(data, runs) ==
    LET r == push(start, value, data, runs)
    IN  /\ value' = r.value
        /\ flast' = FeedCall("push", data, r)
        /\ UNCHANGED <<start, walletvars>>

PushFeedNext(runs) ==
    LET r == next(start, value, runs)
    IN  /\ value' = r.value
        /\ flast' = FeedCall("next", NoOutput, r)
        /\ UNCHANGED <<start, walletvars>>

\* Placeholder.push(v) on one Placeholder
PlaceholderPush(s, v) ==
    /\ value' = [value EXCEPT ![s] = v]
    /\ flast' = FeedCall("load", [k \in {s} |-> v],
                         [err |-> Ok, ret |-> NoOutput])
    /\ UNCHANGED <<start, walletvars>>

CallPush == \E data \in DataDicts : \E runs \in BOOLEAN : PushFeedPush(data, runs)
CallNext == \E runs \in BOOLEAN : PushFeedNext(runs)
CallPlaceholderPush == \E s \in Placeholders : \E v \in Data : PlaceholderPush(s, v)

NextFeed == CallPush \/ CallNext \/ CallPlaceholderPush

SpecFeed == InitFeed /\ [][NextFeed]_vars

(***************************************************************************)
(* What the calls are measured against.                                    *)
(***************************************************************************)
\* the wallets as the last call found them
Before == last.pre

\* the sum of the quantities of the ledger's records of wallet w with memo
RECURSIVE LedgerSum(_, _, _)
LedgerSum(led, w, memo) ==
    IF led = << >> THEN 0
    ELSE (IF Head(led).wallet = w /\ Head(led).memo = memo
          THEN Head(led).quantity.size ELSE 0) + LedgerSum(Tail(led), w, memo)

Returned == last.err = Ok
Raised(exc) == last.err = exc

\* the last call left the balance and the locked map of wallet w alone
WalletUnchanged(w) ==
    /\ balance[w] = Before.balance[w]
    /\ locked[w] = Before.locked[w]

LedgerUnchanged == ledger = Before.ledger

(***************************************************************************)
(* C1  Conservation: on freshly constructed wallets, after any sequence of *)
(* lock, unlock, deposit and withdraw calls, total_balance is the initial  *)
(* balance plus the quantities the deposits returned minus the quantities  *)
(* the withdraws returned, and a lock or an unlock leaves total_balance    *)
(* as it was.  Every deposit and withdraw that returns commits the         *)
(* quantity it returns, so the ledger holds the sums.                      *)
(***************************************************************************)
C1_Conservation ==
    \A w \in Wallets :
       /\ total_balance(Current, w)
            = quantize(Qty(initial_size[w], NoPath)).size
                + LedgerSum(ledger, w, "DEPOSIT") - LedgerSum(ledger, w, "WITHDRAWAL")
       /\ last.op \in {"lock", "unlock"} =>
            total_balance(Current, w) = total_balance(Before, w)

\* the wallet the last call was made on (the source wallet of a transfer)
W == last.wallet

\* the entry of path id p in wallet w's locked map when the last call was made
EntryBefore(w, p) ==
    IF p \in DOMAIN Before.locked[w] THEN Before.locked[w][p] ELSE 0

\* the amount by which the last call lowered wallet w's total_balance
Dec(w) == total_balance(Before, w) - total_balance(Current, w)

\* the last call asked for a free quantity of the wallet's balance plus d
FreeRequest == last.op \in {"lock", "withdraw"} /\ ~is_locked(last.quantity)
Excess == last.quantity.size - Before.balance[W]

(***************************************************************************)
(* C2  Transfer is atomic: whenever transfer does not return a Transfer    *)
(* (InsufficientFunds from the initial withdraw, the commission lock or    *)
(* the commission withdraw, or a failed conservation check), the balance   *)
(* and the locked map of both source and target are what they were before  *)
(* the call.                                                               *)
(***************************************************************************)
C2_TransferAtomic ==
    (last.op = "transfer" /\ ~Returned) => \A w \in Wallets : WalletUnchanged(w)

(***************************************************************************)
(* C3  Lock/unlock inverse: for a free quantity q with q <= balance and a  *)
(* path id pid, unlock(lock(q, pid)) with no call in between leaves the    *)
(* balance and the locked map (its keys and its amounts) what they were    *)
(* before the lock, also when pid had no entry before the lock.            *)
(***************************************************************************)
C3_LockUnlockInverse ==
    [][ (/\ last.op = "lock"
         /\ last.err = Ok
         /\ last.quantity.size <= last.pre.balance[last.wallet]
         /\ last'.op = "unlock"
         /\ last'.wallet = last.wallet
         /\ last'.quantity = last.ret)
        => (/\ balance'[last.wallet] = last.pre.balance[last.wallet]
            /\ locked'[last.wallet] = last.pre.locked[last.wallet]) ]_vars

C5_DustAcceptance ==
    (FreeRequest /\ 0 < Excess /\ Excess < Threshold)
       => /\ Returned
          /\ last.ret.size = Before.balance[W]
          /\ balance[W] = 0
          /\ last.op = "lock" =>
               Entry(W, last.path_id) = EntryBefore(W, last.path_id) + Before.balance[W]

(***************************************************************************)
(* C6  Non-negativity: in every state reached from wallets constructed     *)
(* with a non-negative balance by lock, unlock, deposit, withdraw,         *)
(* transfer and reset calls with non-negative quantities, balance >= 0 and *)
(* every entry of locked is >= 0.                                          *)
(***************************************************************************)
C6_NonNegative ==
    \A w \in Wallets :
       /\ balance[w] >= 0
       /\ \A p \in DOMAIN locked[w] : locked[w][p] >= 0

C6_Witness ==
    /\ last.op = "withdraw"
    /\ ~is_locked(last.quantity)
    /\ Excess > 0
    /\ Before.balance[W] > 0
    /\ Returned
    /\ balance[W] = 0

\* what the last transfer's commission is computed from: the quantity
\* withdrawn for BUY, the quantity deposited for SELL
Base ==
    IF last.side = "BUY" THEN last.ret ELSE convert(last.ret, W, last.price)

(***************************************************************************)
(* C7  Commission amount: for every transfer that returns a Transfer, the  *)
(* commission of the returned record is base * fee_rate, where base is the *)
(* quantity withdrawn for side BUY and the converted quantity for side     *)
(* SELL; a transfer that returns never charges less because the paying     *)
(* wallet's free balance is short.                                         *)
(***************************************************************************)
C7_CommissionAmount ==
    (last.op = "transfer" /\ Returned) => last.commission.size = MulFee(Base).size

(***************************************************************************)
(* C8  Commission leg: for every transfer that returns Transfer(q, c,      *)
(* price), with side BUY the source's total_balance decreases by exactly   *)
(* q + c and the target's increases by exactly the converted amount of q;  *)
(* with side SELL the source's decreases by exactly q and the target's     *)
(* increases by exactly the converted amount of q minus c.                 *)
(***************************************************************************)
C8_CommissionLeg ==
    (last.op = "transfer" /\ Returned) =>
       IF last.side = "BUY"
       THEN /\ Dec(W) = last.ret.size + last.commission.size
            /\ - Dec(Other(W)) = convert(last.ret, W, last.price).size
       ELSE /\ Dec(W) = last.ret.size
            /\ - Dec(Other(W))
                 = convert(last.ret, W, last.price).size - last.commission.size

(***************************************************************************)
(* C9  Error on double-lock: lock of a quantity that already carries a     *)
(* path id raises DoubleLockedQuantity in every wallet state, whatever the *)
(* amount and the balance, and leaves balance, locked and the ledger       *)
(* unchanged.                                                              *)
(***************************************************************************)
C9_DoubleLock ==
    (last.op = "lock" /\ is_locked(last.quantity))
       => (Raised("DoubleLockedQuantity") /\ WalletUnchanged(W) /\ LedgerUnchanged)

C9_Witness ==
    /\ last.op = "lock"
    /\ is_locked(last.quantity)
    /\ last.quantity.size > Before.balance[W] + Threshold
    /\ Before.locked[W] # EmptyDict
    /\ Raised("DoubleLockedQuantity")

(***************************************************************************)
(* C10  Reset restores the initial state: after any sequence of lock,      *)
(* unlock, deposit, withdraw and transfer calls, reset() leaves the        *)
(* balance at the quantized initial size (a multiple of the quantum, no    *)
(* more than half a quantum from initial_size) and the locked map empty,   *)
(* and appends no record to the ledger.                                    *)
(***************************************************************************)
C10_ResetRestores ==
    last.op = "reset" =>
       /\ balance[W] % Quantum = 0
       /\ 2 * balance[W] <= 2 * initial_size[W] + Quantum
       /\ 2 * initial_size[W] <= 2 * balance[W] + Quantum
       /\ locked[W] = EmptyDict
       /\ LedgerUnchanged

C10_Witness ==
    /\ last.op = "reset"
    /\ Before.locked[W] # EmptyDict
    /\ Before.balance[W] # balance[W]
    /\ initial_size[W] % Quantum # 0
    /\ Len(ledger) > 0

\* the ledger when the last call was made is an initial part of the ledger now
LedgerExtended ==
    /\ Len(Before.ledger) <= Len(ledger)
    /\ SubSeq(ledger, 1, Len(Before.ledger)) = Before.ledger

WalletOps == {"lock", "unlock", "deposit", "withdraw"}

(***************************************************************************)
(* C11  The ledger is append-only with one record per operation: every     *)
(* lock, unlock, deposit or withdraw call that returns appends exactly one *)
(* record, every such call that raises appends none, and no operation,     *)
(* reset and transfer included, removes or changes a record appended       *)
(* earlier: the ledger before a call is a prefix of the ledger after it.   *)
(***************************************************************************)
C11_LedgerAppendOnly ==
    /\ LedgerExtended
    /\ last.op \in WalletOps =>
         IF Returned THEN Len(ledger) = Len(Before.ledger) + 1
                     ELSE LedgerUnchanged

C11_Witness ==
    /\ last.op = "unlock"
    /\ Returned
    /\ Len(Before.ledger) >= 1
    /\ Len(ledger) = Len(Before.ledger) + 1

(***************************************************************************)
(* C12  Unlock never clamps and checks in a fixed order: it raises         *)
(* DoubleUnlockedQuantity when the quantity carries no path id; otherwise  *)
(* QuantityNotLocked when its path id has no entry in locked; otherwise    *)
(* InsufficientFunds when its size exceeds locked[path_id] by any positive *)
(* amount, however small; in each case balance, locked and the ledger are  *)
(* unchanged.                                                              *)
(***************************************************************************)
C12_UnlockChecks ==
    last.op = "unlock" =>
       LET q == last.quantity
           p == q.path_id
           unchanged == WalletUnchanged(W) /\ LedgerUnchanged
       IN  IF ~is_locked(q)
           THEN Raised("DoubleUnlockedQuantity") /\ unchanged
           ELSE IF p \notin DOMAIN Before.locked[W]
           THEN Raised("QuantityNotLocked") /\ unchanged
           ELSE (q.size > Before.locked[W][p]) =>
                   (Raised("InsufficientFunds") /\ unchanged)

C12_Witness ==
    /\ last.op = "unlock"
    /\ is_locked(last.quantity)
    /\ last.quantity.size = EntryBefore(W, last.quantity.path_id) + 1
    /\ EntryBefore(W, last.quantity.path_id) > 0
    /\ Raised("InsufficientFunds")

\* a size that quantize() leaves as it is
Quantized(size) == size % Quantum = 0

(***************************************************************************)
(* C13  Quantization invariant: whenever a lock, unlock, deposit, withdraw *)
(* or transfer call returns, whatever quantities it was given, the balance *)
(* and every entry of locked of every wallet are quantized to the          *)
(* instrument's precision.                                                 *)
(***************************************************************************)
C13_Quantized ==
    (last.op \in WalletOps \cup {"transfer"} /\ Returned) =>
       \A w \in Wallets :
          /\ Quantized(balance[w])
          /\ \A p \in DOMAIN locked[w] : Quantized(locked[w][p])

\* the last call asked to withdraw a locked quantity whose path id had no
\* entry in the wallet's locked map
NoEntryWithdraw ==
    /\ last.op = "withdraw"
    /\ is_locked(last.quantity)
    /\ last.quantity.path_id \notin DOMAIN Before.locked[W]

(***************************************************************************)
(* C14  Withdraw no-op branch: withdraw of a locked quantity whose path id *)
(* has no entry in locked raises nothing, leaves the balance and the       *)
(* locked map unchanged (it creates no entry), returns the quantity as it  *)
(* was given, and still commits one ledger record.                         *)
(***************************************************************************)
C14_WithdrawNoOp ==
    NoEntryWithdraw =>
       /\ Returned
       /\ \A w \in Wallets : WalletUnchanged(w)
       /\ last.ret = last.quantity
       /\ ledger = commit(Before.ledger, W, last.quantity,
                          "locked", "exchange", "WITHDRAWAL")

C14_Witness ==
    /\ NoEntryWithdraw
    /\ Before.balance[W] > 0
    /\ Before.locked[W] # EmptyDict
    /\ Returned
    /\ Len(ledger) = Len(Before.ledger) + 1

\* the records the last call appended to the ledger
Appended == SubSeq(ledger, Len(Before.ledger) + 1, Len(ledger))

\* the wallet and the memo of the records of a transfer, in order
TransferSteps(source, target, side) ==
    << [wallet |-> source, memo |-> "WITHDRAWAL"],
       [wallet |-> target, memo |-> "DEPOSIT"],
       [wallet |-> IF side = "BUY" THEN source ELSE target, memo |-> "LOCK"],
       [wallet |-> IF side = "BUY" THEN source ELSE target, memo |-> "WITHDRAWAL"] >>

(***************************************************************************)
(* C15  Transfer step order: a transfer that returns appends exactly four  *)
(* ledger records, in order a WITHDRAWAL on source, a DEPOSIT on target, a *)
(* LOCK of the commission and a WITHDRAWAL of the commission, the last two *)
(* on source for BUY and on target for SELL; and whatever a transfer       *)
(* appends, returning or not, is an initial part of that sequence, so no   *)
(* deposit into target is recorded before the withdrawal from source.      *)
(***************************************************************************)
C15_TransferSteps ==
    last.op = "transfer" =>
       LET steps == TransferSteps(W, Other(W), last.side)
       IN  /\ LedgerExtended
           /\ Len(Appended) <= Len(steps)
           /\ Returned => Len(Appended) = Len(steps)
           /\ \A i \in 1..Len(Appended) :
                 /\ Appended[i].wallet = steps[i].wallet
                 /\ Appended[i].memo = steps[i].memo

C15_Witness ==
    /\ last.op = "transfer"
    /\ last.side = "SELL"
    /\ Returned
    /\ last.commission.size > 0
    /\ Len(Appended) = 4
    /\ Appended[3].wallet = Other(W)

\* size b is the quantized value of size a
QuantizedFrom(b, a) ==
    /\ Quantized(b)
    /\ 2 * b <= 2 * a + Quantum
    /\ 2 * a <= 2 * b + Quantum

(***************************************************************************)
(* C16  Deposit routing: deposit never raises; a quantity carrying a path  *)
(* id is added to locked[path_id] only (the entry is created when absent,  *)
(* added to otherwise) and the balance is unchanged; a quantity carrying   *)
(* none is added to the balance only (which is then re-quantized) and the  *)
(* locked map is unchanged.                                                *)
(***************************************************************************)
C16_DepositRouting ==
    last.op = "deposit" =>
       LET q == last.quantity
           p == q.path_id
       IN  /\ Returned
           /\ balance[Other(W)] = Before.balance[Other(W)]
           /\ locked[Other(W)] = Before.locked[Other(W)]
           /\ IF is_locked(q)
              THEN /\ balance[W] = Before.balance[W]
                   /\ DOMAIN locked[W] = DOMAIN Before.locked[W] \cup {p}
                   /\ locked[W][p] = EntryBefore(W, p) + q.size
                   /\ \A k \in DOMAIN Before.locked[W] \ {p} :
                         locked[W][k] = Before.locked[W][k]
              ELSE /\ locked[W] = Before.locked[W]
                   /\ QuantizedFrom(balance[W], Before.balance[W] + q.size)

C16_Witness ==
    /\ last.op = "deposit"
    /\ is_locked(last.quantity)
    /\ EntryBefore(W, last.quantity.path_id) > 0
    /\ Returned
    /\ Entry(W, last.quantity.path_id) > EntryBefore(W, last.quantity.path_id)

\* the path ids the last call names: that of its quantity and, for lock,
\* its path_id argument
Named ==
    {last.quantity.path_id} \cup (IF last.op = "lock" THEN {last.path_id} ELSE {})

\* the last call left wallet w's entry for path id k as it was: absent if
\* it was absent, the same amount otherwise
EntryUnchanged(w, k) ==
    /\ k \in DOMAIN locked[w] <=> k \in DOMAIN Before.locked[w]
    /\ Entry(w, k) = EntryBefore(w, k)

(***************************************************************************)
(* C17  Path isolation: a lock, unlock, deposit or withdraw call whose     *)
(* quantity or path_id argument names path id p leaves locked[q] of every  *)
(* other path id q unchanged, and a transfer of a quantity locked under p  *)
(* changes no locked entry other than locked[p] in either wallet.          *)
(***************************************************************************)
C17_PathIsolation ==
    (\/ last.op \in WalletOps
     \/ last.op = "transfer" /\ is_locked(last.quantity))
       => \A w \in Wallets : \A k \in Keys \ Named : EntryUnchanged(w, k)

C17_Witness ==
    /\ last.op = "lock"
    /\ Returned
    /\ last.path_id = "p1"
    /\ EntryBefore(W, "p2") > 0
    /\ ~EntryUnchanged(W, "p1")
    /\ EntryUnchanged(W, "p2")

\* the wallet that pays the last transfer's commission
PayingWallet == Payer(W, Other(W), last.side)

\* the wallets as the last transfer's withdraw from source and deposit into
\* target leave them, before its commission step
AfterTrade ==
    LET r1 == withdraw(Before, W, quantize(last.quantity))
    IN  deposit(r1.st, Other(W), convert(r1.ret, W, last.price)).st

EntryAfterTrade(w, p) ==
    IF p \in DOMAIN AfterTrade.locked[w] THEN AfterTrade.locked[w][p] ELSE 0

\* the commission the last transfer has to charge, from the quantity its
\* initial withdraw yields
CommissionDue ==
    LET r1 == withdraw(Before, W, quantize(last.quantity))
    IN  IF r1.err # Ok THEN 0
        ELSE MulFee(IF last.side = "BUY" THEN r1.ret
                    ELSE convert(r1.ret, W, last.price)).size

(***************************************************************************)
(* C18  Commission funding bucket: in a transfer of a quantity locked      *)
(* under path id p that returns, the commission comes out of the paying    *)
(* wallet's free balance (source for BUY, target for SELL): the balance    *)
(* decreases by the commission and locked[p] of that wallet is what the    *)
(* withdraw from source and the deposit into target left; and when the     *)
(* free                                                                    *)
(* balance is short of the commission by more than the dust threshold the  *)
(* transfer raises InsufficientFunds, whatever locked[p] holds.            *)
(***************************************************************************)
C18_CommissionBucket ==
    (last.op = "transfer" /\ is_locked(last.quantity)) =>
       LET p == last.quantity.path_id
           payer == PayingWallet
       IN  /\ Returned =>
                /\ balance[payer] = AfterTrade.balance[payer] - last.commission.size
                /\ Entry(payer, p) = EntryAfterTrade(payer, p)
           /\ CommissionDue > Before.balance[payer] + Threshold
                => Raised("InsufficientFunds")

\* the quantity the last transfer's initial withdraw returns
Withdrawn == withdraw(Before, W, quantize(last.quantity)).ret

(***************************************************************************)
(* C19  No value creation across wallets: after every transfer call,       *)
(* one that raised included, the target's total_balance has not increased  *)
(* unless the source's total_balance decreased by the withdrawn quantity   *)
(* in the same call; in particular a transfer of a quantity locked under a *)
(* path id that has no entry in the source's locked map does not credit    *)
(* the target.                                                             *)
(***************************************************************************)
C19_NoValueCreation ==
    last.op = "transfer" =>
       /\ Dec(Other(W)) < 0 => Dec(W) >= Withdrawn.size
       /\ (/\ is_locked(last.quantity)
           /\ last.quantity.path_id \notin DOMAIN Before.locked[W])
             => Dec(Other(W)) >= 0

\* next() raises unless every starting Placeholder holds a value, and then
\* changes nothing
NextNeedsLoad ==
    (flast.op = "next" /\ ~is_loaded(start, flast.pre))
       => (flast.err = "Exception" /\ value = flast.pre)

\* after a push(data) that returns every starting Placeholder holds None
PushClears ==
    (flast.op = "push" /\ flast.err = Ok)
       => \A s \in Streams(start) : value[s] = None

\* after a push(data) that returns is_loaded is false, and a next() that
\* follows it with no push in between raises
StaleRefused ==
    /\ (flast.op = "push" /\ flast.err = Ok) => ~is_loaded(start, value)
    /\ (flast.op = "next" /\ flast.prev.op = "push" /\ flast.prev.err = Ok)
          => flast.err = "Exception"

(***************************************************************************)
(* C20  PushFeed load protocol, as stated: next() raises unless every      *)
(* starting Placeholder holds a non-None value; after every push(data)     *)
(* that returns all starting Placeholders hold None again, so is_loaded is *)
(* false and a next() not preceded by a new push raises instead of         *)
(* emitting the old data again.                                            *)
(***************************************************************************)
C20_LoadProtocol == NextNeedsLoad /\ PushClears /\ StaleRefused

(***************************************************************************)
(* C20, amended: next() raises unless every starting Placeholder holds a   *)
(* non-None value; after every push(data) that returns all starting        *)
(* Placeholders hold None again; and when the feed has at least one        *)
(* starting Placeholder, is_loaded is then false and a next() not preceded *)
(* by a new push raises.  With no starting Placeholder is_loaded is always *)
(* true.                                                                   *)
(***************************************************************************)
C20_LoadProtocolStarted ==
    /\ NextNeedsLoad
    /\ PushClears
    /\ start # << >> => StaleRefused
    /\ start = << >> => is_loaded(start, value)

C20_Witness ==
    /\ Len(start) = 2
    /\ flast.op = "next"
    /\ flast.prev.op = "push"
    /\ flast.prev.err = Ok
    /\ flast.err = "Exception"
    /\ \A s \in Placeholders : value[s] = None

====
